---- MODULE Spec2Model ----
(***************************************************************************)
(* A model of the netio package: the Validator accumulator, the envelope   *)
(* codec (Write / Read) and the JSON text they produce and consume.        *)
(*                                                                         *)
(* Five specifications share the variables:                                *)
(*   SpecValidator  sequences of AddError / Check calls on one Validator   *)
(*   SpecWrite      one call of Write on a fresh response recorder         *)
(*   SpecRead       one call of Read on a request body                     *)
(*   SpecError      one call of Error on a fresh response recorder         *)
(*   SpecHelpers    one call of HasDuplicates, IsIn or Matches             *)
(***************************************************************************)
EXTENDS Integers, Sequences, FiniteSets, TLC

VARIABLES
    Errors,     \* Validator.Errors: a function from field keys to messages
    calls,      \* history: the AddError / Check calls made so far, in order
    w,          \* the http.ResponseWriter (an httptest.ResponseRecorder)
    wargs,      \* the arguments of the Write call that was made, or NoCall
    werr,       \* what that Write call returned
    r,          \* the request: its body and whether Read has run
    dst,        \* Read's destination struct {Name string; Age int}
    rerr,       \* what Read returned
    nread,      \* how many bytes of the body the decoder consumed
    eargs,      \* the arguments of the Error call that was made, or NoError
    writes,     \* the Write calls that Error call made, in order
    hargs,      \* the helper call to make: which helper, and its arguments
    hres        \* whether that helper has returned, and what it returned

vars == <<Errors, calls, w, wargs, werr, r, dst, rerr, nread, eargs, writes,
          hargs, hres>>

validatorVars == <<Errors, calls>>
writeVars == <<w, wargs, werr>>
readVars == <<r, dst, rerr, nread>>
errorVars == <<eargs, writes>>
helperVars == <<hargs, hres>>

(***************************************************************************)
(* Small helpers on functions and sequences.                               *)
(***************************************************************************)
EmptyMap == [k \in {} |-> TRUE]

MapPut(m, k, v) == [x \in (DOMAIN m) \cup {k} |-> IF x = k THEN v ELSE m[x]]

Range(s) == {s[i] : i \in 1..Len(s)}

Min(a, b) == IF a < b THEN a ELSE b

Max(a, b) == IF a > b THEN a ELSE b

(***************************************************************************)
(* Validator                                                               *)
(***************************************************************************)
MaxCalls == 3

FieldKeys == {"name", "age"}

Messages == {"m1", "m2"}

\* NewValidator: an empty, non-nil Errors map.
NewValidator == EmptyMap

\* A faulty Valid that only looks at the first field.
ValidFirstField(errs) == "name" \notin DOMAIN errs

\* Valid: len(v.Errors) == 0.
Valid(errs) == Cardinality(DOMAIN errs) = 0

\* A faulty AddError that stores unconditionally (last failure wins).
AddErrorOverwrite(errs, key, message) == MapPut(errs, key, message)

\* AddError: store the message unless the key already has one.
AddError(errs, key, message) ==
    IF key \notin DOMAIN errs THEN MapPut(errs, key, message) ELSE errs

\* A faulty Check that records the message whatever the condition.
CheckIgnoringCondition(errs, condition, key, message) ==
    AddError(errs, key, message)

\* Check: AddError when the condition is false, nothing otherwise.
Check(errs, condition, key, message) ==
    IF ~condition THEN AddError(errs, key, message) ELSE errs

\* v.AddError(key, message), for any key and message.
CallAddError ==
    /\ Len(calls) < MaxCalls
    /\ \E key \in FieldKeys, message \in Messages :
          /\ Errors' = AddError(Errors, key, message)
          /\ calls' = Append(calls, [op |-> "AddError", cond |-> FALSE,
                                     key |-> key, msg |-> message])
    /\ UNCHANGED <<writeVars, readVars, errorVars, helperVars>>

\* v.Check(condition, key, message), for any condition, key and message.
CallCheck ==
    /\ Len(calls) < MaxCalls
    /\ \E condition \in BOOLEAN, key \in FieldKeys, message \in Messages :
          /\ Errors' = Check(Errors, condition, key, message)
          /\ calls' = Append(calls, [op |-> "Check", cond |-> condition,
                                     key |-> key, msg |-> message])
    /\ UNCHANGED <<writeVars, readVars, errorVars, helperVars>>

(***************************************************************************)
(* JSON values and JSON text.                                              *)
(*                                                                         *)
(* A text is a sequence of characters.  Letters that never matter one by   *)
(* one are grouped: "name", "test", "true" ... each stand for the run of   *)
(* letters they spell.  The characters with a role in the syntax (quote,   *)
(* backslash, "<", braces, colon, comma, digits, white space) are single.  *)
(***************************************************************************)
DQ == "\""

BS == "\\"

LT == "<"

WhiteSpace == {" ", "\n", "\t", "\r"}

DigitChars == <<"0", "1", "2", "3", "4", "5", "6", "7", "8", "9">>

Digits == Range(DigitChars)

DigitValue(c) == (CHOOSE d \in 1..Len(DigitChars) : DigitChars[d] = c) - 1

\* The order sort.Strings gives the object keys the model uses.
KeyOrder ==
    <<"age", "data", "error", "extra", "failure", "id", "name", "user">>

Str(s) == [t |-> "str", s |-> s]

\* A number as JSON text holds it (the model's numbers are whole).
Num(n) == [t |-> "num", n |-> n]

\* Go values of type int and float64.
GoInt(n) == [t |-> "int", n |-> n]

GoFloat64(n) == [t |-> "float64", n |-> n]

Bool(b) == [t |-> "bool", b |-> b]

Null == [t |-> "null"]

\* A Go func value: the one thing here encoding/json cannot marshal.
Func == [t |-> "func"]

\* map[string]any, as a value.
Obj(m) == [t |-> "obj", m |-> m]

\* A parsed JSON object keeps its members in text order (names may repeat).
Members(mem) == [t |-> "members", mem |-> mem]

\* A Go struct value: its fields in declaration order, each with its JSON
\* name, its value and whether its tag says omitempty.
Struct(fields) == [t |-> "struct", fields |-> fields]

RECURSIVE Serializable(_)
\* Whether json.Marshal accepts the value: no func anywhere inside it.
Serializable(v) ==
    CASE v.t = "func" -> FALSE
      [] v.t = "obj" -> \A k \in DOMAIN v.m : Serializable(v.m[k])
      [] v.t = "struct" ->
            \A i \in 1..Len(v.fields) : Serializable(v.fields[i].v)
      [] OTHER -> TRUE

RECURSIVE Concat(_)
Concat(ss) == IF ss = <<>> THEN <<>> ELSE Head(ss) \o Concat(Tail(ss))

RECURSIVE Join(_, _)
Join(ss, sep) ==
    IF ss = <<>> THEN <<>>
    ELSE IF Len(ss) = 1 THEN Head(ss)
    ELSE Head(ss) \o sep \o Join(Tail(ss), sep)

RECURSIVE Repeat(_, _)
Repeat(c, n) == IF n <= 0 THEN <<>> ELSE <<c>> \o Repeat(c, n - 1)

RECURSIVE NatDigits(_)
NatDigits(n) ==
    IF n < 10 THEN <<DigitChars[n + 1]>>
    ELSE NatDigits(n \div 10) \o <<DigitChars[(n % 10) + 1]>>

\* strconv.AppendInt, base 10.
EncodeInt(n) == IF n < 0 THEN <<"-">> \o NatDigits(0 - n) ELSE NatDigits(n)

\* encoding/json's string escaping (escapeHTML on, as Marshal sets it).
EscapeChar(c) ==
    CASE c = DQ -> <<BS, DQ>>
      [] c = BS -> <<BS, BS>>
      [] c = LT -> <<BS, "u", "0", "0", "3", "c">>
      [] OTHER -> <<c>>

EncodeString(s) ==
    <<DQ>> \o Concat([i \in 1..Len(s) |-> EscapeChar(s[i])]) \o <<DQ>>

SortedKeys(m) == SelectSeq(KeyOrder, LAMBDA k : k \in DOMAIN m)

\* A faulty emptiness test for which no value is ever empty.
NeverEmpty(v) == FALSE

\* encoding/json's isEmptyValue for a field of interface type (any): only
\* the nil interface is empty; an interface holding an empty map is not.
IsEmptyValue(v) == v.t = "null"

\* The fields of a struct that are encoded: omitempty drops the empty ones.
EncodedFields(fields) ==
    SelectSeq(fields, LAMBDA f : ~(f.omitempty /\ IsEmptyValue(f.v)))

RECURSIVE EncodeIndent(_, _)
\* json.MarshalIndent(v, "", "\t") at nesting depth d.
EncodeIndent(v, d) ==
    CASE v.t = "str" -> EncodeString(v.s)
      [] v.t = "int" -> EncodeInt(v.n)
      [] v.t = "float64" -> EncodeInt(v.n)
      [] v.t = "bool" -> IF v.b THEN <<"true">> ELSE <<"false">>
      [] v.t = "null" -> <<"null">>
      [] v.t = "obj" ->
            IF DOMAIN v.m = {} THEN <<"{", "}">>
            ELSE LET ks == SortedKeys(v.m)
                     member(k) == Repeat("\t", d + 1) \o EncodeString(<<k>>)
                                  \o <<":", " ">> \o EncodeIndent(v.m[k], d + 1)
                 IN <<"{", "\n">>
                    \o Join([i \in 1..Len(ks) |-> member(ks[i])], <<",", "\n">>)
                    \o <<"\n">> \o Repeat("\t", d) \o <<"}">>
      [] v.t = "struct" ->
            LET member(f) == Repeat("\t", d + 1) \o EncodeString(<<f.k>>)
                             \o <<":", " ">> \o EncodeIndent(f.v, d + 1)
            IN <<"{", "\n">>
               \o Join([i \in 1..Len(EncodedFields(v.fields)) |->
                           member(EncodedFields(v.fields)[i])], <<",", "\n">>)
               \o <<"\n">> \o Repeat("\t", d) \o <<"}">>

\* json.MarshalIndent on an Envelope: the text, or an error for a func.
MarshalIndent(data) ==
    IF Serializable(Obj(data))
    THEN [err |-> "nil", json |-> EncodeIndent(Obj(data), 0)]
    ELSE [err |-> "json: unsupported type: func()", json |-> <<>>]

(***************************************************************************)
(* The JSON scanner, a state machine fed one character at a time as        *)
(* encoding/json's is.  Its state: the mode (what may come next), a stack  *)
(* with one frame per open object (the members read so far and the name    *)
(* awaiting its value), the string or number being read, and pos, the      *)
(* position of the next character to take.                                 *)
(***************************************************************************)
HexChars == Digits \cup {"a", "b", "c", "d", "e", "f"}

ScanStart ==
    [mode |-> "value", stack |-> <<>>, str |-> <<>>, iskey |-> FALSE,
     num |-> 0, neg |-> FALSE, lead0 |-> FALSE, hex |-> <<>>,
     v |-> Null, err |-> "nil", pos |-> 1]

ScanError(st, e) == [st EXCEPT !.mode = "error", !.err = e]

\* A value is complete: it is the result, or the value of the pending name.
Complete(st, v) ==
    IF st.stack = <<>> THEN [st EXCEPT !.mode = "done", !.v = v]
    ELSE LET n == Len(st.stack)
             top == st.stack[n]
         IN [st EXCEPT !.mode = "after",
                       !.stack[n].mem = Append(top.mem, [k |-> top.key, v |-> v])]

\* "}" closes the innermost object, which is then a complete value.
CloseObject(st) ==
    LET n == Len(st.stack)
    IN Complete([st EXCEPT !.stack = SubSeq(st.stack, 1, n - 1)],
                Members(st.stack[n].mem))

CompleteNumber(st) == Complete(st, Num(IF st.neg THEN 0 - st.num ELSE st.num))

BeginString(st, iskey) ==
    [st EXCEPT !.mode = "string", !.str = <<>>, !.iskey = iskey]

\* One character c in state st.
ScanStep(st, c) ==
    CASE st.mode = "value" ->
            IF c \in WhiteSpace THEN st
            ELSE IF c = "{"
                THEN [st EXCEPT !.mode = "first_key",
                                !.stack = Append(st.stack, [mem |-> <<>>, key |-> <<>>])]
            ELSE IF c = DQ THEN BeginString(st, FALSE)
            ELSE IF c = "-" THEN [st EXCEPT !.mode = "neg", !.neg = TRUE]
            ELSE IF c \in Digits
                THEN [st EXCEPT !.mode = "number", !.num = DigitValue(c),
                                !.neg = FALSE, !.lead0 = (c = "0")]
            ELSE IF c = "true" THEN Complete(st, Bool(TRUE))
            ELSE IF c = "false" THEN Complete(st, Bool(FALSE))
            ELSE IF c = "null" THEN Complete(st, Null)
            ELSE ScanError(st, "SyntaxError")
      [] st.mode = "neg" ->
            IF c \in Digits
            THEN [st EXCEPT !.mode = "number", !.num = DigitValue(c),
                            !.lead0 = (c = "0")]
            ELSE ScanError(st, "SyntaxError")
      [] st.mode = "number" ->
            [st EXCEPT !.num = st.num * 10 + DigitValue(c)]
      [] st.mode = "first_key" ->
            IF c \in WhiteSpace THEN st
            ELSE IF c = "}" THEN CloseObject(st)
            ELSE IF c = DQ THEN BeginString(st, TRUE)
            ELSE ScanError(st, "SyntaxError")
      [] st.mode = "key" ->
            IF c \in WhiteSpace THEN st
            ELSE IF c = DQ THEN BeginString(st, TRUE)
            ELSE ScanError(st, "SyntaxError")
      [] st.mode = "colon" ->
            IF c \in WhiteSpace THEN st
            ELSE IF c = ":" THEN [st EXCEPT !.mode = "value"]
            ELSE ScanError(st, "SyntaxError")
      [] st.mode = "after" ->
            IF c \in WhiteSpace THEN st
            ELSE IF c = "," THEN [st EXCEPT !.mode = "key"]
            ELSE IF c = "}" THEN CloseObject(st)
            ELSE ScanError(st, "SyntaxError")
      [] st.mode = "string" ->
            IF c = DQ
            THEN IF st.iskey
                 THEN [st EXCEPT !.mode = "colon",
                                 !.stack[Len(st.stack)].key = st.str]
                 ELSE Complete(st, Str(st.str))
            ELSE IF c = BS THEN [st EXCEPT !.mode = "esc"]
            ELSE IF c \in {"\n", "\t", "\r"} THEN ScanError(st, "SyntaxError")
            ELSE [st EXCEPT !.str = Append(st.str, c)]
      [] st.mode = "esc" ->
            IF c \in {DQ, BS}
            THEN [st EXCEPT !.mode = "string", !.str = Append(st.str, c)]
            ELSE IF c = "u" THEN [st EXCEPT !.mode = "hex", !.hex = <<>>]
            ELSE ScanError(st, "SyntaxError")
      [] st.mode = "hex" ->
            IF c \notin HexChars THEN ScanError(st, "SyntaxError")
            ELSE IF Len(st.hex) < 3 THEN [st EXCEPT !.hex = Append(st.hex, c)]
            ELSE IF Append(st.hex, c) = <<"0", "0", "3", "c">>
                THEN [st EXCEPT !.mode = "string", !.str = Append(st.str, LT)]
            ELSE ScanError(st, "SyntaxError")

\* The text ends in state st: nothing but white space ("EOF"), a number at
\* the top level (complete), or the middle of a value.
ScanEnd(st) ==
    IF st.mode \in {"done", "error"} THEN st
    ELSE IF st.mode = "value" /\ st.stack = <<>> THEN ScanError(st, "EOF")
    ELSE IF st.mode = "number" /\ st.stack = <<>> THEN CompleteNumber(st)
    ELSE ScanError(st, "UnexpectedEOF")

\* A number ends at the first character that cannot continue it.
NumberEnds(st, c) == st.mode = "number" /\ (c \notin Digits \/ st.lead0)

\* The scanner is given the next character c of the text.  The character
\* that ends a number is read in the state after the number, and is not
\* taken at all when the number is the whole value.
Feed(st, c) ==
    IF NumberEnds(st, c) /\ st.stack = <<>> THEN CompleteNumber(st)
    ELSE [ScanStep(IF NumberEnds(st, c) THEN CompleteNumber(st) ELSE st, c)
             EXCEPT !.pos = st.pos + 1]

RECURSIVE FeedRange(_, _, _, _)
\* Feed s[lo..hi], in order (split in halves to keep the evaluation flat).
\* Once the value is complete, or cannot be, nothing more is taken.
FeedRange(s, lo, hi, st) ==
    IF st.mode \in {"done", "error"} \/ lo > hi THEN st
    ELSE IF lo = hi THEN Feed(st, s[lo])
    ELSE FeedRange(s, ((lo + hi) \div 2) + 1, hi,
                   FeedRange(s, lo, (lo + hi) \div 2, st))

ScanResult(st) == [err |-> st.err, v |-> st.v, i |-> st.pos]

\* One JSON value read from s at position i: [err, v, i] with err "nil" and
\* i the position after the value, or err "EOF" (only white space was
\* left), "UnexpectedEOF" or "SyntaxError".
ParseValue(s, i) ==
    ScanResult(ScanEnd(FeedRange(s, i, Len(s), [ScanStart EXCEPT !.pos = i])))

RECURSIVE MembersToMap(_, _)
RECURSIVE ToAny(_)

\* Members stored into a map[string]any one by one: a repeated name keeps
\* its last value.  The names the model uses are one letter run long.
MembersToMap(mem, m) ==
    IF mem = <<>> THEN m
    ELSE MembersToMap(Tail(mem), MapPut(m, Head(mem).k[1], ToAny(Head(mem).v)))

\* A parsed value as Unmarshal stores it into an interface{}: an object as
\* map[string]any, a number as float64, a string or a bool as itself.
ToAny(v) ==
    CASE v.t = "members" -> Obj(MembersToMap(v.mem, EmptyMap))
      [] v.t = "num" -> GoFloat64(v.n)
      [] OTHER -> v

(***************************************************************************)
(* The response writer: an httptest.ResponseRecorder.                      *)
(***************************************************************************)
StatusOK == 200

StatusInternalServerError == 500

ContentType == "Content-Type"

ApplicationJSON == "application/json"

\* httptest.NewRecorder: no header, Code 200, nothing written.
NewRecorder ==
    [header |-> EmptyMap, code |-> StatusOK, wroteHeader |-> FALSE,
     body |-> <<>>, panicked |-> FALSE, log |-> <<>>]

\* w.Header().Set(key, value): the key holds exactly this one value.
HeaderSet(rw, key, value) ==
    [rw EXCEPT !.header = MapPut(rw.header, key, <<value>>),
               !.log = Append(rw.log, "Header")]

\* w.Header()[key] = values.
HeaderAssign(rw, key, values) ==
    [rw EXCEPT !.header = MapPut(rw.header, key, values),
               !.log = Append(rw.log, "Header")]

\* w.WriteHeader(code): the first call fixes the status; a code outside
\* 100..999 panics; later calls are ignored (the log keeps them apart).
WriteHeader(rw, code) ==
    IF rw.wroteHeader THEN [rw EXCEPT !.log = Append(rw.log, "WriteHeader again")]
    ELSE IF code < 100 \/ code > 999 THEN [rw EXCEPT !.panicked = TRUE]
    ELSE [rw EXCEPT !.code = code, !.wroteHeader = TRUE,
                    !.log = Append(rw.log, "WriteHeader")]

\* w.Write(buf): an implicit WriteHeader(200) if none was made, then the
\* bytes are appended to the body.
WriteBody(rw, buf) ==
    LET rw1 == IF rw.wroteHeader THEN rw ELSE WriteHeader(rw, StatusOK)
    IN [rw1 EXCEPT !.body = rw1.body \o buf, !.log = Append(rw1.log, "Write")]

RECURSIVE ApplyHeaders(_, _, _)
\* for key, values := range headers { w.Header()[key] = values }
ApplyHeaders(rw, headers, keys) ==
    IF keys = {} THEN rw
    ELSE LET k == CHOOSE x \in keys : TRUE
         IN ApplyHeaders(HeaderAssign(rw, k, headers[k]), headers, keys \ {k})

(***************************************************************************)
(* Write                                                                   *)
(***************************************************************************)
ErrNetioMarshalFailure == "error marshalling data"

\* A faulty Write that sends the response but leaves the body out.
WriteNoBody(rw, status, data, headers) ==
    LET m == MarshalIndent(data)
    IN IF m.err # "nil" THEN [w |-> rw, err |-> ErrNetioMarshalFailure]
       ELSE LET w1 == ApplyHeaders(rw, headers, DOMAIN headers)
                w2 == HeaderSet(w1, ContentType, ApplicationJSON)
                w3 == WriteHeader(w2, status)
            IN IF w3.panicked THEN [w |-> w3, err |-> "panic"]
               ELSE [w |-> w3, err |-> "nil"]

\* A faulty Write that reports a marshalling failure to the client as well.
WriteErrorBody(rw, status, data, headers) ==
    LET m == MarshalIndent(data)
    IN IF m.err # "nil"
       THEN [w |-> WriteBody(WriteHeader(rw, StatusInternalServerError),
                             <<ErrNetioMarshalFailure>>),
             err |-> ErrNetioMarshalFailure]
       ELSE LET w1 == ApplyHeaders(rw, headers, DOMAIN headers)
                w2 == HeaderSet(w1, ContentType, ApplicationJSON)
                w3 == WriteHeader(w2, status)
            IN IF w3.panicked THEN [w |-> w3, err |-> "panic"]
               ELSE [w |-> WriteBody(w3, Append(m.json, "\n")), err |-> "nil"]

\* A faulty Write that applies the caller's headers after the status line.
WriteHeadersLate(rw, status, data, headers) ==
    LET m == MarshalIndent(data)
    IN IF m.err # "nil" THEN [w |-> rw, err |-> ErrNetioMarshalFailure]
       ELSE LET w1 == HeaderSet(rw, ContentType, ApplicationJSON)
                w2 == WriteHeader(w1, status)
                w3 == ApplyHeaders(w2, headers, DOMAIN headers)
            IN IF w2.panicked THEN [w |-> w2, err |-> "panic"]
               ELSE [w |-> WriteBody(w3, Append(m.json, "\n")), err |-> "nil"]

\* Write: marshal first and return the error if that fails; otherwise apply
\* the caller's headers, set Content-Type, write the status line and the
\* body (the JSON text and a newline).
Write(rw, status, data, headers) ==
    LET m == MarshalIndent(data)
    IN IF m.err # "nil" THEN [w |-> rw, err |-> ErrNetioMarshalFailure]
       ELSE LET json == Append(m.json, "\n")
                w1 == ApplyHeaders(rw, headers, DOMAIN headers)
                w2 == HeaderSet(w1, ContentType, ApplicationJSON)
                w3 == WriteHeader(w2, status)
            IN IF w3.panicked THEN [w |-> w3, err |-> "panic"]
               ELSE [w |-> WriteBody(w3, json), err |-> "nil"]

\* The payloads: leaves, maps of leaves, and envelopes of either.
Leaves ==
    {Str(<<"test">>), Str(<<DQ, LT, BS>>), GoInt(30), GoFloat64(30), Bool(TRUE),
     Func}

MapsOver(keys, values) ==
    UNION {[ks -> values] : ks \in SUBSET keys}

Envelopes ==
    MapsOver({"data", "user"},
             Leaves \cup {Obj(m) : m \in MapsOver({"id", "name"}, Leaves)})

Statuses == {0, 200, 404, 500}

\* http.Header values a caller passes; nil is the empty map.
HeaderMaps ==
    {EmptyMap,
     "X-Custom" :> <<"v1", "v2">>,
     ContentType :> <<"text/plain">>,
     ("X-Custom" :> <<"v1", "v2">>) @@ (ContentType :> <<"text/plain">>)}

NoCall == [called |-> FALSE, status |-> 0, data |-> EmptyMap, headers |-> EmptyMap]

\* Write(w, status, data, headers) on the fresh recorder, for any arguments.
CallWrite ==
    /\ ~wargs.called
    /\ \E status \in Statuses, data \in Envelopes, headers \in HeaderMaps :
          LET res == Write(w, status, data, headers)
          IN /\ w' = res.w
             /\ werr' = res.err
             /\ wargs' = [called |-> TRUE, status |-> status, data |-> data,
                          headers |-> headers]
    /\ UNCHANGED <<validatorVars, readVars, errorVars, helperVars>>

(***************************************************************************)
(* Request bodies and readers.  A body is `pad` bytes of white space       *)
(* followed by the characters `bytes`; a reader is a body with a limit on  *)
(* the bytes it hands out (NoLimit for the request's own body).            *)
(***************************************************************************)
MaxBodyBytes == 1048576

NoLimit == 0 - 1

BodyLen(body) == body.pad + Len(body.bytes)

\* http.MaxBytesReader(w, body, n): a NEW reader that fails once more than
\* n bytes are asked of it.  The reader it is given stays as it was.
MaxBytesReader(rd, n) == [rd EXCEPT !.limit = n]

\* What a reader hands out before it ends, and the error that ends it.
Visible(rd) ==
    IF rd.limit = NoLimit \/ BodyLen(rd) <= rd.limit
    THEN [pad |-> rd.pad, bytes |-> rd.bytes, end |-> "io.EOF"]
    ELSE [pad |-> Min(rd.pad, rd.limit),
          bytes |-> SubSeq(rd.bytes, 1, Max(0, rd.limit - rd.pad)),
          end |-> "http.MaxBytesError"]

(***************************************************************************)
(* json.Decoder                                                            *)
(***************************************************************************)
\* The earliest saved error is the one Unmarshal reports.
SaveError(saved, e) == IF saved = "nil" THEN e ELSE saved

\* Whether a scanned value can be stored in a field of Go type ty.
Assignable(v, ty) ==
    \/ ty = "string" /\ v.t = "str"
    \/ ty = "int" /\ v.t = "num"

\* The Go value that is stored.
Convert(v, ty) == IF ty = "int" THEN GoInt(v.n) ELSE v

RECURSIVE DecodeMembers(_, _, _, _, _)
\* decodeState.object into a struct: members in text order; a member whose
\* name is no field is an error when unknown fields are disallowed, a value
\* of the wrong type is an error and its field is skipped, null is skipped.
DecodeMembers(mem, target, types, strict, saved) ==
    IF mem = <<>> THEN [dst |-> target, err |-> saved]
    ELSE LET k == Head(mem).k
             v == Head(mem).v
             known == Len(k) = 1 /\ k[1] \in DOMAIN types
         IN IF ~known
            THEN DecodeMembers(Tail(mem), target, types, strict,
                     IF strict THEN SaveError(saved, "json: unknown field")
                     ELSE saved)
            ELSE IF v.t = "null"
            THEN DecodeMembers(Tail(mem), target, types, strict, saved)
            ELSE IF Assignable(v, types[k[1]])
            THEN DecodeMembers(Tail(mem),
                               [target EXCEPT ![k[1]] = Convert(v, types[k[1]])],
                               types, strict, saved)
            ELSE DecodeMembers(Tail(mem), target, types, strict,
                               SaveError(saved, "json.UnmarshalTypeError"))

\* decodeState.unmarshal of one scanned value into a struct.
Unmarshal(v, target, types, strict) ==
    CASE v.t = "members" -> DecodeMembers(v.mem, target, types, strict, "nil")
      [] v.t = "null" -> [dst |-> target, err |-> "nil"]
      [] OTHER -> [dst |-> target, err |-> "json.UnmarshalTypeError"]

NewDecoder(rd) == [rd |-> rd, pos |-> 1, strict |-> FALSE]

\* The decoder after it has read up to position i.
ReadTo(dec, i) == [dec EXCEPT !.pos = i]

\* The outcome of Decode once the scanner has read p from a reader that
\* ends with the error end.  Only white space before the end gives the
\* reader's own error (io.EOF for a body that just ends); an end inside a
\* value gives io.ErrUnexpectedEOF.
DecodeScanned(dec, target, types, vis, p) ==
    IF p.err = "EOF"
    THEN [dec |-> ReadTo(dec, p.i), dst |-> target, err |-> vis.end]
    ELSE IF p.err = "UnexpectedEOF"
    THEN [dec |-> ReadTo(dec, p.i), dst |-> target,
          err |-> IF vis.end = "io.EOF" THEN "io.ErrUnexpectedEOF" ELSE vis.end]
    ELSE IF p.err = "SyntaxError"
    THEN [dec |-> ReadTo(dec, p.i), dst |-> target, err |-> "json.SyntaxError"]
    ELSE IF p.v.t # "members" /\ p.i > Len(vis.bytes) /\ vis.end # "io.EOF"
    THEN [dec |-> ReadTo(dec, p.i), dst |-> target, err |-> vis.end]
    ELSE [dec |-> ReadTo(dec, p.i),
          dst |-> Unmarshal(p.v, target, types, dec.strict).dst,
          err |-> Unmarshal(p.v, target, types, dec.strict).err]

\* dec.Decode(&target): scan the next value of the stream, then unmarshal
\* it.
Decode(dec, target, types) ==
    DecodeScanned(dec, target, types, Visible(dec.rd),
                  ParseValue(Visible(dec.rd).bytes, dec.pos))

\* The bytes the decoder has taken from its reader so far.
Consumed(dec) == Visible(dec.rd).pad + (dec.pos - 1)

(***************************************************************************)
(* Read                                                                    *)
(***************************************************************************)
ErrMultipleJsonBodies == "body can only contain a single json value"

\* The destination of TestRead: struct { Name string; Age int }.
FieldType == [name |-> "string", age |-> "int"]

ZeroDst == [name |-> Str(<<>>), age |-> GoInt(0)]

\* A faulty end-of-body test that also lets a second value through.
IsEOFOrNil(err) == err \in {"io.EOF", "nil"}

\* A faulty end-of-body test that wants the second Decode to succeed.
IsNil(err) == err = "nil"

\* errors.Is(err, io.EOF)
IsEOF(err) == err = "io.EOF"

\* A decoder left as NewDecoder made it: unknown fields are ignored.
DisallowUnknownFieldsDropped(dec) == dec

DisallowUnknownFields(dec) == [dec EXCEPT !.strict = TRUE]

\* A faulty step that hands back a zeroed target when it rejects the body.
SingleValueZeroed(d1, d2) ==
    IF ~IsEOF(d2.err)
    THEN [err |-> ErrMultipleJsonBodies, dst |-> ZeroDst,
          nread |-> Consumed(d2.dec)]
    ELSE [err |-> "nil", dst |-> d1.dst, nread |-> Consumed(d2.dec)]

\* Lines 91-101: d2 is the second Decode, into an empty struct; anything
\* but io.EOF from it is the multiple-values error.
SingleValue(d1, d2) ==
    IF ~IsEOF(d2.err)
    THEN [err |-> ErrMultipleJsonBodies, dst |-> d1.dst,
          nread |-> Consumed(d2.dec)]
    ELSE [err |-> "nil", dst |-> d1.dst, nread |-> Consumed(d2.dec)]

\* A faulty step that hides the decoder's error behind a fixed one.
DecodedOpaque(d1) ==
    IF d1.err # "nil"
    THEN [err |-> "invalid request body", dst |-> d1.dst,
          nread |-> Consumed(d1.dec)]
    ELSE SingleValue(d1, Decode(d1.dec, EmptyMap, EmptyMap))

\* Lines 86-89: d1 is the first Decode, into dst; its error is returned as
\* it is.
Decoded(d1) ==
    IF d1.err # "nil"
    THEN [err |-> d1.err, dst |-> d1.dst, nread |-> Consumed(d1.dec)]
    ELSE SingleValue(d1, Decode(d1.dec, EmptyMap, EmptyMap))

\* Read: the size limit is built but the decoder is given r.Body itself;
\* unknown fields are disallowed; the first value goes into dst; a second
\* Decode must end with io.EOF.
Read(body, target) ==
    LET max == MaxBodyBytes
        limited == MaxBytesReader(body, max)
        dec == DisallowUnknownFields(NewDecoder(body))
    IN Decoded(Decode(dec, target, FieldType))

(***************************************************************************)
(* The request bodies Read is run on: optional leading white space, a      *)
(* first part, and whatever follows it.                                    *)
(***************************************************************************)
MaxMembers == 2

BodyKeys == {"name", "age", "extra"}

BodyValues == {Str(<<"test">>), Str(<<"x">>), Num(30)}

MemberSeqs ==
    UNION {[1..n -> [k : {<<x>> : x \in BodyKeys}, v : BodyValues]] :
           n \in 0..MaxMembers}

\* An object as a client writes it: {"name": "test", "age": 30}
Render(mem) ==
    LET literal(v) == IF v.t = "str" THEN EncodeString(v.s) ELSE EncodeInt(v.n)
        member(m) == EncodeString(m.k) \o <<":", " ">> \o literal(m.v)
    IN <<"{">> \o Join([i \in 1..Len(mem) |-> member(mem[i])], <<",", " ">>)
       \o <<"}">>

Truncated == <<"{", DQ, "name", DQ, ":", " ", DQ, "test", DQ>>

FirstParts ==
    {Render(m) : m \in MemberSeqs}
    \cup {<<>>, Truncated, <<"{", "extra", "}">>, EncodeString(<<"test">>)}

Tails ==
    {<<>>, <<"\n">>, <<"{", "}">>,
     Render(<<[k |-> <<"age">>, v |-> Num(30)]>>),
     <<" ", "{">>, <<"test">>}

Leads == {<<>>, <<" ">>}

Pads == {0, MaxBodyBytes}

Bodies ==
    {[bytes |-> l \o f \o t, pad |-> p, limit |-> NoLimit] :
        l \in Leads, f \in FirstParts, t \in Tails, p \in Pads}

NoBody == [bytes |-> <<>>, pad |-> 0, limit |-> NoLimit]

\* Read(w, r, &dst) on the request.
CallRead ==
    /\ ~r.done
    /\ LET res == Read(r.body, dst)
       IN /\ rerr' = res.err
          /\ dst' = res.dst
          /\ nread' = res.nread
    /\ r' = [r EXCEPT !.done = TRUE]
    /\ UNCHANGED <<validatorVars, writeVars, errorVars, helperVars>>

(***************************************************************************)
(* Error                                                                   *)
(***************************************************************************)
NetioUnknownErr == "NetioUnknownError: error not provided"

NetioFallbackErr == "NetioErrorFallback: something went wrong..."

NetioValidationErr == "validation failed"

\* The nil error.
NilError == "<nil>"

\* time.Now(), as MarshalJSON writes it.
Now == "2024-01-08T10:00:00Z"

\* A Go string as a value ("" is the string of no characters).
GoString(x) == IF x = "" THEN Str(<<>>) ELSE Str(<<x>>)

\* http.StatusText: the reason phrase, "" for a code that has none.
StatusText(code) ==
    CASE code = 400 -> "Bad Request"
      [] code = 404 -> "Not Found"
      [] code = 422 -> "Unprocessable Entity"
      [] code = 500 -> "Internal Server Error"
      [] OTHER -> ""

\* A *Validator: nil, or a Validator with its Errors.
NilValidator == [nil |-> TRUE, Errors |-> EmptyMap]

ValidatorOf(errs) == [nil |-> FALSE, Errors |-> errs]

\* v.Errors (map[string]string) as a value held in an interface.
ErrorsValue(errs) == Obj([k \in DOMAIN errs |-> GoString(errs[k])])

\* A faulty ErrorResponse with a field encoding/json cannot marshal.
ErrorResponseWithFunc(status, statusText, message, validation, timestamp) ==
    Struct(<<[k |-> "status", v |-> GoInt(status), omitempty |-> FALSE],
             [k |-> "status_text", v |-> GoString(statusText), omitempty |-> FALSE],
             [k |-> "message", v |-> GoString(message), omitempty |-> FALSE],
             [k |-> "validation", v |-> validation, omitempty |-> TRUE],
             [k |-> "cause", v |-> Func, omitempty |-> FALSE],
             [k |-> "timestamp", v |-> GoString(timestamp), omitempty |-> FALSE]>>)

\* type ErrorResponse struct, with its JSON tags.
ErrorResponse(status, statusText, message, validation, timestamp) ==
    Struct(<<[k |-> "status", v |-> GoInt(status), omitempty |-> FALSE],
             [k |-> "status_text", v |-> GoString(statusText), omitempty |-> FALSE],
             [k |-> "message", v |-> GoString(message), omitempty |-> FALSE],
             [k |-> "validation", v |-> validation, omitempty |-> TRUE],
             [k |-> "timestamp", v |-> GoString(timestamp), omitempty |-> FALSE]>>)

ErrorFallback ==
    "error" :> ErrorResponse(StatusInternalServerError,
                             StatusText(StatusInternalServerError),
                             NetioFallbackErr, Null, Now)

BuildError(status, message) ==
    ErrorResponse(status, StatusText(status), message, Null, Now)

\* A faulty BuildErrorWithValidation that leaves the validator's errors out.
BuildErrorDroppingValidation(status, message, v) ==
    ErrorResponse(status, StatusText(status), message, Null, Now)

BuildErrorWithValidation(status, message, v) ==
    ErrorResponse(status, StatusText(status), message, ErrorsValue(v.Errors),
                  Now)

\* A faulty test that takes every returned value for a failure.
FailedAlways(err) == err # "panic"

\* `err != nil` on what Write returned (a Write that panics returns nothing).
Failed(err) == err \notin {"nil", "panic"}

\* One Write call as the history keeps it.
WriteCall(status, data, err) == [status |-> status, data |-> data, err |-> err]

\* A faulty send that writes the fallback after the primary envelope in any
\* case.
SendBoth(code, env, p) ==
    IF p.err = "panic"
    THEN [w |-> p.w, writes |-> <<WriteCall(code, env, p.err)>>]
    ELSE [w |-> WriteBody(WriteHeader(p.w, StatusInternalServerError),
                          MarshalIndent(ErrorFallback).json),
          writes |-> <<WriteCall(code, env, p.err)>>]

\* Lines 136-139: p is what Write(w, code, env, nil) gave; when it failed,
\* the fallback envelope is written with status 500 and what that Write
\* returns is dropped.
SendOrFallback(code, env, p) ==
    IF Failed(p.err)
    THEN [w |-> Write(p.w, StatusInternalServerError, ErrorFallback,
                      EmptyMap).w,
          writes |-> <<WriteCall(code, env, p.err),
                       WriteCall(StatusInternalServerError, ErrorFallback,
                                 Write(p.w, StatusInternalServerError,
                                       ErrorFallback, EmptyMap).err)>>]
    ELSE [w |-> p.w, writes |-> <<WriteCall(code, env, p.err)>>]

\* A faulty envelope whose `status` field is brought into 100..599 while the
\* status line is sent as given.
ErrorEnvelopeNormalized(key, e, code, v) ==
    (IF key = "" THEN "error" ELSE key) :>
        BuildError(IF code >= 100 /\ code <= 599
                   THEN code ELSE StatusInternalServerError,
                   IF e = NilError THEN NetioUnknownErr ELSE e)

\* The envelope Error builds: lines 121-135.
ErrorEnvelope(key, e, code, v) ==
    (IF key = "" THEN "error" ELSE key) :>
        (IF ~v.nil
         THEN BuildErrorWithValidation(code, NetioValidationErr, v)
         ELSE BuildError(code, IF e = NilError THEN NetioUnknownErr ELSE e))

\* Error(w, key, e, code, v)
Error(rw, key, e, code, v) ==
    SendOrFallback(code, ErrorEnvelope(key, e, code, v),
                   Write(rw, code, ErrorEnvelope(key, e, code, v), EmptyMap))

ErrorKeys == {"", "failure"}

ErrorValues == {NilError, "boom"}

Codes == {0 - 1, 0, 400, 422, 500, 700}

Validators ==
    {NilValidator} \cup {ValidatorOf(m) : m \in MapsOver(FieldKeys, Messages)}

NoError ==
    [called |-> FALSE, key |-> "", e |-> NilError, code |-> 0,
     v |-> NilValidator]

\* Error(w, key, e, code, v) on the fresh recorder, for any arguments.
CallError ==
    /\ ~eargs.called
    /\ \E key \in ErrorKeys, e \in ErrorValues, code \in Codes,
          v \in Validators :
          LET res == Error(w, key, e, code, v)
          IN /\ w' = res.w
             /\ writes' = res.writes
             /\ eargs' = [called |-> TRUE, key |-> key, e |-> e,
                          code |-> code, v |-> v]
    /\ UNCHANGED <<validatorVars, wargs, werr, readVars, helperVars>>

(***************************************************************************)
(* The validation helpers: HasDuplicates, IsIn, Matches.                   *)
(*                                                                         *)
(* Elements of the generic helpers are strings.  A value given to Matches  *)
(* is a text, one character per element, and a compiled regular expression *)
(* is the sequence of its items: "^", "$", or a character class repeated   *)
(* one or more times ([a-z]+, \d+).                                        *)
(***************************************************************************)
MaxLen == 3

Seqs(S) == UNION {[1..n -> S] : n \in 0..MaxLen}

\* A faulty HasDuplicates that only compares neighbours.
HasAdjacentDuplicates(values) ==
    \E i \in 1..(Len(values) - 1) : values[i] = values[i + 1]

\* The loop of HasDuplicates from element i on, uniqueVals holding the
\* elements seen before it.
RECURSIVE HasDuplicatesFrom(_, _, _)
HasDuplicatesFrom(values, i, uniqueVals) ==
    IF i > Len(values) THEN FALSE
    ELSE IF values[i] \in uniqueVals THEN TRUE
    ELSE HasDuplicatesFrom(values, i + 1, uniqueVals \cup {values[i]})

\* HasDuplicates: one pass with an initially empty uniqueVals.
HasDuplicates(values) == HasDuplicatesFrom(values, 1, {})

\* slices.Index: the (zero-based) index of the first element equal to v,
\* or -1.
RECURSIVE IndexFrom(_, _, _)
IndexFrom(s, v, i) ==
    IF i > Len(s) THEN 0 - 1
    ELSE IF s[i] = v THEN i - 1
    ELSE IndexFrom(s, v, i + 1)

\* slices.Contains.
Contains(s, v) == IndexFrom(s, v, 1) >= 0

\* A faulty IsIn that only looks at the first allowed value.
IsInFirst(value, allowedValues) ==
    allowedValues # <<>> /\ allowedValues[1] = value

\* IsIn: slices.Contains(allowedValues, value).
IsIn(value, allowedValues) == Contains(allowedValues, value)

LowerChars == {"a", "t"}

Bol == [t |-> "bol", set |-> {}]

Eol == [t |-> "eol", set |-> {}]

Plus(set) == [t |-> "plus", set |-> set]

\* regexp.MustCompile of: ^[a-z]+\d+$   ^\d+$   ^$   \d+   [a-z]+\d+
\* ^\d+   \d+$
Patterns ==
    { <<Bol, Plus(LowerChars), Plus(Digits), Eol>>,
      <<Bol, Plus(Digits), Eol>>,
      <<Bol, Eol>>,
      <<Plus(Digits)>>,
      <<Plus(LowerChars), Plus(Digits)>>,
      <<Bol, Plus(Digits)>>,
      <<Plus(Digits), Eol>> }

\* Where a run of one or more characters of the class can end when it
\* starts at position i.
RunEnds(set, s, i) ==
    {j \in (i + 1)..(Len(s) + 1) : \A x \in i..(j - 1) : s[x] \in set}

\* The positions at which items k.. of rx can stop when they start at
\* position i of s.
RECURSIVE EndsOf(_, _, _, _)
EndsOf(rx, k, s, i) ==
    IF k > Len(rx) THEN {i}
    ELSE IF rx[k].t = "bol"
         THEN IF i = 1 THEN EndsOf(rx, k + 1, s, i) ELSE {}
    ELSE IF rx[k].t = "eol"
         THEN IF i = Len(s) + 1 THEN EndsOf(rx, k + 1, s, i) ELSE {}
    ELSE UNION {EndsOf(rx, k + 1, s, j) : j \in RunEnds(rx[k].set, s, i)}

\* Regexp.MatchString: the search tries every start position of s.
MatchString(rx, s) == \E i \in 1..(Len(s) + 1) : EndsOf(rx, 1, s, i) # {}

\* A Matches that asks for a match of the whole value.
MatchesWhole(value, rx) == (Len(value) + 1) \in EndsOf(rx, 1, value, 1)

\* Matches: rx.MatchString(value).
Matches(value, rx) == MatchString(rx, value)

Elements == {"a", "b", "c"}

Texts == Seqs({"t", "1", "_"})

NoHelperCall ==
    [fn |-> "none", values |-> <<>>, elem |-> "", value |-> <<>>, rx |-> <<>>]

NotReturned == [done |-> FALSE, ok |-> FALSE]

\* The calls a handler can make: any slice of elements, any element against
\* any list of allowed values, any text against any of the patterns.
HelperCalls ==
    [fn : {"HasDuplicates"}, values : Seqs(Elements), elem : {""},
     value : {<<>>}, rx : {<<>>}]
    \cup [fn : {"IsIn"}, values : Seqs(Elements), elem : Elements \cup {"d"},
          value : {<<>>}, rx : {<<>>}]
    \cup [fn : {"Matches"}, values : {<<>>}, elem : {""},
          value : Texts, rx : Patterns]

\* HasDuplicates(values).
CallHasDuplicates ==
    /\ ~hres.done
    /\ hargs.fn = "HasDuplicates"
    /\ hres' = [done |-> TRUE, ok |-> HasDuplicates(hargs.values)]
    /\ UNCHANGED <<validatorVars, writeVars, readVars, errorVars, hargs>>

\* IsIn(value, allowedValues...).
CallIsIn ==
    /\ ~hres.done
    /\ hargs.fn = "IsIn"
    /\ hres' = [done |-> TRUE, ok |-> IsIn(hargs.elem, hargs.values)]
    /\ UNCHANGED <<validatorVars, writeVars, readVars, errorVars, hargs>>

\* Matches(value, rx).
CallMatches ==
    /\ ~hres.done
    /\ hargs.fn = "Matches"
    /\ hres' = [done |-> TRUE, ok |-> Matches(hargs.value, hargs.rx)]
    /\ UNCHANGED <<validatorVars, writeVars, readVars, errorVars, hargs>>

(***************************************************************************)
(* The specifications.                                                     *)
(***************************************************************************)
\* A new Validator; no request, no response.
InitValidator ==
    /\ Errors = NewValidator
    /\ calls = <<>>
    /\ w = NewRecorder
    /\ wargs = NoCall
    /\ werr = "nil"
    /\ r = [body |-> NoBody, done |-> FALSE]
    /\ dst = ZeroDst
    /\ rerr = "nil"
    /\ nread = 0
    /\ eargs = NoError
    /\ writes = <<>>
    /\ hargs = NoHelperCall
    /\ hres = NotReturned

NextValidator == CallAddError \/ CallCheck

SpecValidator == InitValidator /\ [][NextValidator]_vars

\* A fresh recorder, before the handler calls Write.
InitWrite ==
    /\ Errors = NewValidator
    /\ calls = <<>>
    /\ w = NewRecorder
    /\ wargs = NoCall
    /\ werr = "nil"
    /\ r = [body |-> NoBody, done |-> FALSE]
    /\ dst = ZeroDst
    /\ rerr = "nil"
    /\ nread = 0
    /\ eargs = NoError
    /\ writes = <<>>
    /\ hargs = NoHelperCall
    /\ hres = NotReturned

NextWrite == CallWrite

SpecWrite == InitWrite /\ [][NextWrite]_vars

\* A request with any of the bodies and a zeroed destination.
InitRead ==
    /\ Errors = NewValidator
    /\ calls = <<>>
    /\ w = NewRecorder
    /\ wargs = NoCall
    /\ werr = "nil"
    /\ r \in [body : Bodies, done : {FALSE}]
    /\ dst = ZeroDst
    /\ rerr = "nil"
    /\ nread = 0
    /\ eargs = NoError
    /\ writes = <<>>
    /\ hargs = NoHelperCall
    /\ hres = NotReturned

NextRead == CallRead

SpecRead == InitRead /\ [][NextRead]_vars

\* A fresh recorder, before the handler calls Error.
InitError ==
    /\ Errors = NewValidator
    /\ calls = <<>>
    /\ w = NewRecorder
    /\ wargs = NoCall
    /\ werr = "nil"
    /\ r = [body |-> NoBody, done |-> FALSE]
    /\ dst = ZeroDst
    /\ rerr = "nil"
    /\ nread = 0
    /\ eargs = NoError
    /\ writes = <<>>
    /\ hargs = NoHelperCall
    /\ hres = NotReturned

NextError == CallError

SpecError == InitError /\ [][NextError]_vars

\* A helper call about to be made, with any of the arguments.
InitHelpers ==
    /\ Errors = NewValidator
    /\ calls = <<>>
    /\ w = NewRecorder
    /\ wargs = NoCall
    /\ werr = "nil"
    /\ r = [body |-> NoBody, done |-> FALSE]
    /\ dst = ZeroDst
    /\ rerr = "nil"
    /\ nread = 0
    /\ eargs = NoError
    /\ writes = <<>>
    /\ hargs \in HelperCalls
    /\ hres = NotReturned

NextHelpers == CallHasDuplicates \/ CallIsIn \/ CallMatches

SpecHelpers == InitHelpers /\ [][NextHelpers]_vars

(***************************************************************************)
(* Properties of the Validator (SpecValidator).                            *)
(***************************************************************************)
\* The calls so far that record a failure for key k: AddError(k, _) and
\* Check(FALSE, k, _), in call order.
FailingOn(k) ==
    SelectSeq(calls, LAMBDA c : c.key = k /\ (c.op = "AddError" \/ ~c.cond))

\* C1: after any sequence of Check / AddError calls, a key has an entry in
\* Errors exactly when some failing call named it, and the entry is the
\* message of the first such call (later failures never overwrite it).
C1_FirstFailureWins ==
    \A k \in FieldKeys :
        /\ (k \in DOMAIN Errors) <=> (FailingOn(k) # <<>>)
        /\ FailingOn(k) # <<>> => Errors[k] = FailingOn(k)[1].msg

\* Two failing calls on one key with different messages have been made.
C1_Witness ==
    \E k \in FieldKeys :
        /\ Len(FailingOn(k)) >= 2
        /\ FailingOn(k)[1].msg # FailingOn(k)[2].msg
        /\ Errors[k] = FailingOn(k)[1].msg

(***************************************************************************)
(* Properties of Read (SpecRead).                                          *)
(***************************************************************************)
BodyBytes == r.body.bytes

\* The first JSON value of the body, as the scanner reads it.
FirstValue == ParseValue(BodyBytes, 1)

OnlySpaceFrom(s, i) == \A j \in i..Len(s) : s[j] \in WhiteSpace

FirstIsObject == FirstValue.err = "nil" /\ FirstValue.v.t = "members"

KnownMember(m) == Len(m.k) = 1 /\ m.k[1] \in DOMAIN FieldType

MatchingMember(m) == KnownMember(m) /\ Assignable(m.v, FieldType[m.k[1]])

\* The first value is an object whose names are all fields of the target,
\* each with a value of the field's type.
FirstDecodesCleanly ==
    /\ FirstIsObject
    /\ \A i \in 1..Len(FirstValue.v.mem) : MatchingMember(FirstValue.v.mem[i])

\* The first value does not fit the target: it is no object, or a member
\* for a field of the target has a value of another type.
FirstTypeMismatch ==
    /\ FirstValue.err = "nil"
    /\ \/ FirstValue.v.t \notin {"members", "null"}
       \/ /\ FirstValue.v.t = "members"
          /\ \E i \in 1..Len(FirstValue.v.mem) :
                /\ KnownMember(FirstValue.v.mem[i])
                /\ ~MatchingMember(FirstValue.v.mem[i])

RECURSIVE MalformedFrom(_, _)
\* Some value of the text, the first or a later one, is not well-formed.
MalformedFrom(s, i) ==
    LET p == ParseValue(s, i)
    IN IF p.err = "EOF" THEN FALSE
       ELSE IF p.err # "nil" THEN TRUE
       ELSE MalformedFrom(s, p.i)

\* The errors that are the decoder's own (errors.Is / errors.As find them).
DecoderErrors ==
    {"io.EOF", "io.ErrUnexpectedEOF", "json.SyntaxError",
     "json.UnmarshalTypeError", "json: unknown field", "http.MaxBytesError"}

\* C2: for every body longer than 1 MiB, Read returns the body-size error
\* and takes no more than 1 MiB from the body.
C2_BodySizeLimit ==
    (r.done /\ BodyLen(r.body) > MaxBodyBytes)
        => (rerr = "http.MaxBytesError" /\ nread <= MaxBodyBytes)

\* C3 as claimed: a cleanly decoded first value followed by anything at all
\* before the end of the body makes Read return the multiple-values error.
C3_AnythingAfterFirst ==
    (r.done /\ FirstDecodesCleanly /\ FirstValue.i <= Len(BodyBytes))
        => rerr = ErrMultipleJsonBodies

\* C3 as amended: a cleanly decoded first value followed by at least one
\* character that is not white space makes Read return the multiple-values
\* error (and never nil).
C3_MultipleValues ==
    (r.done /\ FirstDecodesCleanly /\ ~OnlySpaceFrom(BodyBytes, FirstValue.i))
        => rerr = ErrMultipleJsonBodies

\* Read has rejected a body of two well-formed objects, the second one with
\* names the target declares.
C3_Witness ==
    /\ r.done
    /\ FirstDecodesCleanly
    /\ Len(FirstValue.v.mem) > 0
    /\ ~OnlySpaceFrom(BodyBytes, FirstValue.i)
    /\ ParseValue(BodyBytes, FirstValue.i).err = "nil"
    /\ rerr = ErrMultipleJsonBodies

\* The position of the first member whose name the target does not declare.
FirstUnknown(mem) ==
    CHOOSE i \in 1..Len(mem) :
        /\ ~KnownMember(mem[i])
        /\ \A j \in 1..(i - 1) : KnownMember(mem[j])

HasUnknownMember ==
    /\ FirstIsObject
    /\ \E i \in 1..Len(FirstValue.v.mem) : ~KnownMember(FirstValue.v.mem[i])

\* C4 as claimed: an object with a name the target does not declare makes
\* Read fail with the unknown-field error.
C4_AlwaysUnknownField ==
    (r.done /\ HasUnknownMember) => rerr = "json: unknown field"

\* C4 as amended: such a body never gives nil; Read fails with the
\* unknown-field error, unless a member before the first unknown name has a
\* value of the wrong type, and then with that member's type error.
C4_UnknownField ==
    (r.done /\ HasUnknownMember) =>
        LET mem == FirstValue.v.mem
            u == FirstUnknown(mem)
        IN IF \E j \in 1..(u - 1) : ~MatchingMember(mem[j])
           THEN rerr = "json.UnmarshalTypeError"
           ELSE rerr = "json: unknown field"

\* Read has failed with the unknown-field error on an object that also
\* holds a declared field.
C4_Witness ==
    /\ r.done
    /\ HasUnknownMember
    /\ \E i \in 1..Len(FirstValue.v.mem) : MatchingMember(FirstValue.v.mem[i])
    /\ rerr = "json: unknown field"

\* C5 as claimed: an empty body, a body that is malformed anywhere, or a
\* value of the wrong type makes Read return the decoder's own error.
C5_AnyMalformedBody ==
    (r.done /\ (\/ BodyLen(r.body) = 0
                \/ MalformedFrom(BodyBytes, 1)
                \/ FirstTypeMismatch))
        => rerr \in DecoderErrors

\* C5 as amended: Read returns the decoder's own error, never nil, when the
\* body is empty (io.EOF), when its FIRST value is malformed (a syntax
\* error or an unexpected end) or when its first value does not fit the
\* target (a type error, or the error of an unknown name before it).
C5_DecodeFailure ==
    r.done =>
        /\ OnlySpaceFrom(BodyBytes, 1) => rerr = "io.EOF"
        /\ FirstValue.err = "SyntaxError" => rerr = "json.SyntaxError"
        /\ FirstValue.err = "UnexpectedEOF" => rerr = "io.ErrUnexpectedEOF"
        /\ FirstTypeMismatch =>
              rerr \in {"json.UnmarshalTypeError", "json: unknown field"}

\* Read has returned each kind: this one is the type error of a body whose
\* first value is an object with a wrongly typed field.
C5_Witness ==
    /\ r.done
    /\ FirstIsObject
    /\ FirstTypeMismatch
    /\ rerr = "json.UnmarshalTypeError"

\* The value the body gives field k: that of the last member named k.
LastValue(mem, k) ==
    LET i == CHOOSE x \in 1..Len(mem) :
                 /\ mem[x].k = <<k>>
                 /\ \A y \in (x + 1)..Len(mem) : mem[y].k # <<k>>
    IN mem[i].v

\* C6: a body that is one object whose names are all declared fields with
\* values of their types, with nothing but white space around it, makes
\* Read return nil, and every field the body names then holds the body's
\* value (the last one, where the body repeats a name); the other fields
\* keep what they held.
C6_ValidBody ==
    (r.done /\ FirstDecodesCleanly /\ OnlySpaceFrom(BodyBytes, FirstValue.i))
        => /\ rerr = "nil"
           /\ \A k \in DOMAIN FieldType :
                 LET mem == FirstValue.v.mem
                 IN IF \E i \in 1..Len(mem) : mem[i].k = <<k>>
                    THEN dst[k] = Convert(LastValue(mem, k), FieldType[k])
                    ELSE dst[k] = ZeroDst[k]

\* Read has accepted {"name": ..., "age": 30} followed by a newline.
C6_Witness ==
    /\ r.done
    /\ rerr = "nil"
    /\ FirstDecodesCleanly
    /\ FirstValue.i <= Len(BodyBytes)
    /\ dst.name # ZeroDst.name
    /\ dst.age = GoInt(30)

(***************************************************************************)
(* Properties of Write (SpecWrite).                                        *)
(***************************************************************************)
\* The body of the response read back as JSON into an interface{}.
BodyValue == ParseValue(w.body, 1)

\* C7: for every payload that cannot be marshalled and every status code,
\* Write returns ErrNetioMarshalFailure and the destination's status is
\* nevertheless set to the status argument.
C7_StatusSetOnFailure ==
    (wargs.called /\ ~Serializable(Obj(wargs.data)))
        => /\ werr = ErrNetioMarshalFailure
           /\ w.wroteHeader
           /\ w.code = wargs.status

\* C8: when Write fails with the marshal-failure error, no byte has been
\* written to the destination's body (w.Write was not called at all).
C8_NoBodyOnFailure ==
    (wargs.called /\ werr = ErrNetioMarshalFailure)
        => (w.body = <<>> /\ "Write" \notin Range(w.log))

\* Write has failed on an envelope holding a func inside a nested map.
C8_Witness ==
    /\ wargs.called
    /\ werr = ErrNetioMarshalFailure
    /\ \E k \in DOMAIN wargs.data :
          /\ wargs.data[k].t = "obj"
          /\ \E j \in DOMAIN wargs.data[k].m : wargs.data[k].m[j] = Func

\* Write(w, 200, P, nil) is given a payload that marshals.
WritesPayload ==
    /\ wargs.called
    /\ wargs.status = StatusOK
    /\ wargs.headers = EmptyMap
    /\ Serializable(Obj(wargs.data))

RECURSIVE IntsAsFloats(_)
\* The value with every Go int in it replaced by the float64 of the same
\* number.
IntsAsFloats(v) ==
    CASE v.t = "int" -> GoFloat64(v.n)
      [] v.t = "obj" -> Obj([k \in DOMAIN v.m |-> IntsAsFloats(v.m[k])])
      [] OTHER -> v

RECURSIVE HoldsInt(_)
HoldsInt(v) ==
    CASE v.t = "int" -> TRUE
      [] v.t = "obj" -> \E k \in DOMAIN v.m : HoldsInt(v.m[k])
      [] OTHER -> FALSE

\* C9 as claimed: for every payload P that marshals, Write(w, 200, P, nil)
\* returns nil and the body it writes, read back as JSON, equals P.
C9_IdentityRoundTrip ==
    WritesPayload
        => /\ werr = "nil"
           /\ BodyValue.err = "nil"
           /\ ToAny(BodyValue.v) = Obj(wargs.data)

\* C9 as amended: for every payload P that marshals, Write(w, 200, P, nil)
\* returns nil and the body it writes is one JSON value, followed by white
\* space only, that reads back as P with each int of P as the float64 of
\* the same number; it reads back equal to P when P holds no int.
C9_RoundTrip ==
    WritesPayload
        => /\ werr = "nil"
           /\ BodyValue.err = "nil"
           /\ OnlySpaceFrom(w.body, BodyValue.i)
           /\ ToAny(BodyValue.v) = IntsAsFloats(Obj(wargs.data))
           /\ ~HoldsInt(Obj(wargs.data)) => ToAny(BodyValue.v) = Obj(wargs.data)

\* Write(w, 200, P, nil) has sent a P with an int, and with a nested map
\* holding a string that needs escaping; the body read back has the string
\* as it was and the int as a float64.
C9_Witness ==
    /\ WritesPayload
    /\ werr = "nil"
    /\ \E k \in DOMAIN wargs.data : wargs.data[k] = GoInt(30)
    /\ \E k \in DOMAIN wargs.data :
          /\ wargs.data[k].t = "obj"
          /\ \E j \in DOMAIN wargs.data[k].m :
                wargs.data[k].m[j] = Str(<<DQ, LT, BS>>)
    /\ ToAny(BodyValue.v) = IntsAsFloats(Obj(wargs.data))
    /\ ToAny(BodyValue.v) # Obj(wargs.data)

\* C10: after every call of Write that returns (nil or the marshal-failure
\* error) and whose extra headers do not name Content-Type, the
\* destination's Content-Type is application/json.
C10_ContentTypeAlways ==
    (/\ wargs.called
     /\ werr \in {"nil", ErrNetioMarshalFailure}
     /\ ContentType \notin DOMAIN wargs.headers)
        => /\ ContentType \in DOMAIN w.header
           /\ w.header[ContentType] = <<ApplicationJSON>>

\* The default headers the README lists for Write.
DefaultHeaders ==
    (ContentType :> <<ApplicationJSON>>)
    @@ ("X-Content-Type-Options" :> <<"nosniff">>)
    @@ ("X-Frame-Options" :> <<"DENY">>)

\* C11: after a successful Write, every key of the header map passed in
\* holds exactly the value list the caller gave, the keys Write sets by
\* default (Content-Type among them) included.
C11_CallerHeadersKept ==
    (wargs.called /\ werr = "nil")
        => \A k \in DOMAIN wargs.headers :
              /\ k \in DOMAIN w.header
              /\ w.header[k] = wargs.headers[k]

\* C12: after a successful Write whose extra headers name none of them, the
\* destination carries Content-Type: application/json,
\* X-Content-Type-Options: nosniff and X-Frame-Options: DENY.
C12_DefaultHeaders ==
    (/\ wargs.called
     /\ werr = "nil"
     /\ DOMAIN wargs.headers \cap DOMAIN DefaultHeaders = {})
        => \A k \in DOMAIN DefaultHeaders :
              /\ k \in DOMAIN w.header
              /\ w.header[k] = DefaultHeaders[k]

\* C13: in a successful Write the extra headers are applied and
\* Content-Type is set (one change of the header map each), then the
\* status line is written, then the body; nothing changes a header after
\* the status line.
C13_HeadersStatusBody ==
    (wargs.called /\ werr = "nil")
        => LET n == Cardinality(DOMAIN wargs.headers) + 1
           IN /\ Len(w.log) = n + 2
              /\ \A i \in 1..n : w.log[i] = "Header"
              /\ w.log[n + 1] = "WriteHeader"
              /\ w.log[n + 2] = "Write"
              /\ w.code = wargs.status

\* A successful Write that was given two extra headers.
C13_Witness ==
    /\ wargs.called
    /\ werr = "nil"
    /\ Cardinality(DOMAIN wargs.headers) = 2
    /\ w.log = <<"Header", "Header", "Header", "WriteHeader", "Write">>
    /\ w.body # <<>>

(***************************************************************************)
(* Properties of Error (SpecError).                                        *)
(***************************************************************************)
\* Error has run and has sent a response.
Emitted == eargs.called /\ ~w.panicked /\ w.body # <<>>

\* The key the error object is wrapped in.
SentKey == IF eargs.key = "" THEN "error" ELSE eargs.key

\* The error object of the response, read back from the body as JSON.
ErrorObject == ToAny(BodyValue.v).m[SentKey].m

\* How many entries of the writer's log are of the given kinds.
Logged(kinds) == Len(SelectSeq(w.log, LAMBDA op : op \in kinds))

\* The status Error is to send for the code it was given.
Normalized(code) ==
    IF code >= 100 /\ code <= 599 THEN code ELSE StatusInternalServerError

\* C14: for every status code outside 100..599 the response is sent with
\* status 500, on the status line and in the `status` field of the JSON; a
\* code inside 100..599 is sent unchanged.
C14_StatusNormalized ==
    eargs.called
        => /\ Emitted
           /\ w.code = Normalized(eargs.code)
           /\ ErrorObject["status"] = GoFloat64(Normalized(eargs.code))

\* C15: for every status code, key and validator (nil or not), Error runs
\* to completion without a panic and leaves a response written.
C15_NeverPanics ==
    eargs.called => (~w.panicked /\ w.wroteHeader /\ w.body # <<>>)

\* C16: Error calls Write once for the primary envelope (its status the
\* code, its one key the key given or "error"); it calls Write a second
\* time, with status 500 and the fallback envelope, exactly when the first
\* call returned an error; it never calls Write a third time.
C16_SingleFallback ==
    eargs.called
        => /\ Len(writes) \in {1, 2}
           /\ writes[1].status = eargs.code
           /\ DOMAIN writes[1].data = {SentKey}
           /\ Len(writes) = 2 <=> writes[1].err = ErrNetioMarshalFailure
           /\ Len(writes) = 2 =>
                 /\ writes[2].status = StatusInternalServerError
                 /\ writes[2].data = ErrorFallback

\* Error has sent a validator's errors with one Write call that returned
\* nil.
C16_Witness ==
    /\ eargs.called
    /\ ~eargs.v.nil
    /\ eargs.v.Errors # EmptyMap
    /\ Len(writes) = 1
    /\ writes[1].err = "nil"
    /\ w.body # <<>>

\* C17: in every execution of Error the status line is written at most
\* once (WriteHeader is not called again) and the body at most once.
C17_WrittenOnce ==
    eargs.called
        => /\ Logged({"WriteHeader", "WriteHeader again"}) <= 1
           /\ Logged({"Write"}) <= 1

\* Error has written one status line, 500, and one body.
C17_Witness ==
    /\ eargs.called
    /\ eargs.code = StatusInternalServerError
    /\ w.code = StatusInternalServerError
    /\ Logged({"WriteHeader"}) = 1
    /\ Logged({"Write"}) = 1

\* C18: for every call of Error with a nil validator, the `message` of the
\* emitted error object is the reason phrase of the status that is sent.
C18_MessageIsReasonPhrase ==
    (Emitted /\ eargs.v.nil)
        => ErrorObject["message"] = GoString(StatusText(w.code))

\* C19: for every call of Error with a validator that is not nil, the
\* `validation` field of the emitted error object is the validator's error
\* mapping: every key with its message and no other entry.
C19_ValidationIsErrors ==
    (Emitted /\ ~eargs.v.nil)
        => /\ "validation" \in DOMAIN ErrorObject
           /\ ErrorObject["validation"].t = "obj"
           /\ DOMAIN ErrorObject["validation"].m = DOMAIN eargs.v.Errors
           /\ \A k \in DOMAIN eargs.v.Errors :
                 ErrorObject["validation"].m[k] = Str(<<eargs.v.Errors[k]>>)

\* Error has sent the errors of a validator that holds two keys with
\* different messages.
C19_Witness ==
    /\ Emitted
    /\ ~eargs.v.nil
    /\ Cardinality(DOMAIN eargs.v.Errors) = 2
    /\ eargs.v.Errors["name"] # eargs.v.Errors["age"]
    /\ DOMAIN ErrorObject["validation"].m = {"name", "age"}

\* C20 as claimed: the emitted error object has a `validation` field only
\* when a validator was supplied and holds an error; with a nil validator,
\* or one for which Valid() is true, the field is absent.
C20_AbsentWhenValid ==
    Emitted
        => ("validation" \in DOMAIN ErrorObject
               <=> (~eargs.v.nil /\ ~Valid(eargs.v.Errors)))

\* C20 as amended: the emitted error object has a `validation` field
\* exactly when a validator was supplied; for a validator that holds no
\* error the field is the empty object.
C20_PresentWithValidator ==
    Emitted
        => /\ "validation" \in DOMAIN ErrorObject <=> ~eargs.v.nil
           /\ (~eargs.v.nil /\ Valid(eargs.v.Errors))
                 => ErrorObject["validation"] = Obj(EmptyMap)

\* Error has sent a response for a validator that holds no error, and for
\* a nil validator the field was left out.
C20_Witness ==
    /\ Emitted
    /\ ~eargs.v.nil
    /\ Valid(eargs.v.Errors)
    /\ ErrorObject["validation"] = Obj(EmptyMap)
    /\ "timestamp" \in DOMAIN ErrorObject

(***************************************************************************)
(* Claims about the validator's state.                                     *)
(***************************************************************************)
\* A call that records a failure: AddError, or Check on a false condition.
IsFailing(c) == c.op = "AddError" \/ ~c.cond

NoFailingCall == \A i \in 1..Len(calls) : ~IsFailing(calls[i])

\* C21: in every state reached from NewValidator by Check and AddError
\* calls, the initial one included, Valid() is true exactly when the Errors
\* map is empty, which is exactly when no failing check has been recorded.
C21_ValidIffNoFailure ==
    /\ Valid(Errors) <=> (Errors = EmptyMap)
    /\ (Errors = EmptyMap) <=> NoFailingCall

\* Both sides happen: a passing Check leaves the validator valid, and a
\* failing call on "age" after it makes the validator invalid.
C21_Witness ==
    /\ Len(calls) = 2
    /\ calls[1].op = "Check" /\ calls[1].cond
    /\ IsFailing(calls[2]) /\ calls[2].key = "age"
    /\ ~Valid(Errors)

LastCall == calls[Len(calls)]

CheckStep == Len(calls') = Len(calls) + 1 /\ calls'[Len(calls')].op = "Check"

\* C22: Check(condition, k, m) changes at most the entry for k: the
\* validator is unchanged when the condition is true or k already has a
\* message; otherwise only k -> m is added and every other entry keeps its
\* value.
C22_CheckFrame ==
    [][CheckStep =>
         LET c == calls'[Len(calls')] IN
         /\ \A k \in DOMAIN Errors : k \in DOMAIN Errors' /\ Errors'[k] = Errors[k]
         /\ IF c.cond \/ c.key \in DOMAIN Errors
            THEN DOMAIN Errors' = DOMAIN Errors
            ELSE /\ DOMAIN Errors' = DOMAIN Errors \cup {c.key}
                 /\ Errors'[c.key] = c.msg]_vars

\* A failing Check on "age" has added its entry next to an older "name"
\* entry, and a passing Check came before.
C22_Witness ==
    /\ Len(calls) = 3
    /\ calls[1].op = "Check" /\ calls[1].cond
    /\ calls[2].key = "name" /\ IsFailing(calls[2])
    /\ LastCall.op = "Check" /\ ~LastCall.cond /\ LastCall.key = "age"
    /\ DOMAIN Errors = {"name", "age"}
    /\ Errors["age"] = LastCall.msg


(***************************************************************************)
(* Claims about the validation helpers.                                    *)
(***************************************************************************)
Returned(fn) == hres.done /\ hargs.fn = fn

\* C23: for every finite sequence s, HasDuplicates(s) is true exactly when
\* two distinct positions i # j hold equal elements; it is false for the
\* empty sequence and for every one-element sequence.
C23_HasDuplicates ==
    Returned("HasDuplicates") =>
        /\ hres.ok <=> \E i, j \in 1..Len(hargs.values) :
                           i # j /\ hargs.values[i] = hargs.values[j]
        /\ Len(hargs.values) <= 1 => ~hres.ok

\* The equal elements are not neighbours.
C23_Witness ==
    /\ Returned("HasDuplicates")
    /\ hargs.values = <<"a", "b", "a">>
    /\ hres.ok

\* C24: IsIn(x, A...) is true exactly when x equals some element of A; it
\* is false when A is empty.
C24_IsIn ==
    Returned("IsIn") =>
        /\ hres.ok <=> hargs.elem \in Range(hargs.values)
        /\ hargs.values = <<>> => ~hres.ok

\* The value is found at the last of three allowed values.
C24_Witness ==
    /\ Returned("IsIn")
    /\ hargs.values = <<"a", "b", "c">>
    /\ hargs.elem = "c"
    /\ hres.ok

\* Item it of a pattern matches exactly the piece a..(b - 1) of s.
ItemSpans(it, s, a, b) ==
    CASE it.t = "bol" -> a = b /\ a = 1
      [] it.t = "eol" -> a = b /\ a = Len(s) + 1
      [] OTHER -> b > a /\ \A x \in a..(b - 1) : s[x] \in it.set

\* The pattern matches exactly the piece i..(j - 1) of s: the piece can be
\* cut into one piece per item, in order.
Spans(rx, s, i, j) ==
    \E cut \in [0..Len(rx) -> i..j] :
        /\ cut[0] = i
        /\ cut[Len(rx)] = j
        /\ \A k \in 1..Len(rx) :
              cut[k - 1] <= cut[k] /\ ItemSpans(rx[k], s, cut[k - 1], cut[k])

WholeMatch(rx, s) == Spans(rx, s, 1, Len(s) + 1)

SomeMatch(rx, s) ==
    \E i \in 1..(Len(s) + 1) : \E j \in i..(Len(s) + 1) : Spans(rx, s, i, j)

Anchored(rx) == Len(rx) >= 2 /\ rx[1] = Bol /\ rx[Len(rx)] = Eol

\* C25 as stated: Matches(value, pattern) is true exactly when the whole
\* value, and not merely a piece of it, matches the pattern.
C25_FullMatch ==
    Returned("Matches") => (hres.ok <=> WholeMatch(hargs.rx, hargs.value))

\* C25, corrected: Matches(value, pattern) is true exactly when some piece
\* of the value (the whole of it included) matches the pattern; it is a
\* match of the whole value when the pattern is anchored by ^ and $.
C25_ContainsMatch ==
    Returned("Matches") =>
        /\ hres.ok <=> SomeMatch(hargs.rx, hargs.value)
        /\ Anchored(hargs.rx) =>
              (hres.ok <=> WholeMatch(hargs.rx, hargs.value))

\* \d+ matches inside "t1_", which is not a run of digits.
C25_Witness ==
    /\ Returned("Matches")
    /\ hargs.rx = <<Plus(Digits)>>
    /\ hargs.value = <<"t", "1", "_">>
    /\ hres.ok
    /\ ~WholeMatch(hargs.rx, hargs.value)


(***************************************************************************)
(* Further properties of Error (SpecError) and Read (SpecRead).            *)
(***************************************************************************)
\* The `status` field of the error object an envelope wraps.
StatusField(env) ==
    LET res == env[CHOOSE k \in DOMAIN env : TRUE]
    IN res.fields[CHOOSE i \in 1..Len(res.fields) :
                      res.fields[i].k = "status"].v

\* C26: every response Error emits is self-consistent: the code of the
\* status line equals the `status` field of the JSON error object, for the
\* primary envelope and for the fallback envelope (sent with 500, status
\* 500).
C26_StatusLineIsStatusField ==
    /\ Emitted =>
          \A k \in DOMAIN ToAny(BodyValue.v).m :
              ToAny(BodyValue.v).m[k].m["status"] = GoFloat64(w.code)
    /\ \A i \in 1..Len(writes) :
          StatusField(writes[i].data) = GoInt(writes[i].status)
    /\ StatusField(ErrorFallback) = GoInt(StatusInternalServerError)

\* A response sent with a code that has no reason phrase: 700 on the status
\* line and in the body.
C26_Witness ==
    /\ Emitted
    /\ eargs.code = 700
    /\ w.code = 700
    /\ ErrorObject["status"] = GoFloat64(700)

\* Whether the first value of the body names field k.
Names(k) == \E i \in 1..Len(FirstValue.v.mem) : FirstValue.v.mem[i].k = <<k>>

C28_FallbackUnreachable ==
    (eargs.called /\ eargs.code >= 100 /\ eargs.code <= 599)
        => /\ Len(writes) = 1
           /\ writes[1].err = "nil"
           /\ MarshalIndent(writes[1].data).err = "nil"
           /\ w.body = MarshalIndent(writes[1].data).json \o <<"\n">>

\* Error has sent a validator's two messages under the caller's key with
\* its one Write call.
C28_Witness ==
    /\ eargs.called
    /\ eargs.key = "failure"
    /\ eargs.code = 422
    /\ DOMAIN eargs.v.Errors = {"name", "age"}
    /\ Len(writes) = 1
    /\ writes[1].err = "nil"
    /\ w.code = 422


====
